---- MODULE Spec2Model ----
(***************************************************************************)
(* Model of grid_search.py: the RangeIterator hierarchy (IntRangeIterator, *)
(* CombinedRangeIterator, ConstantExtendedRangeIterator), the              *)
(* GridSearchSession state machine, the DefaultLogger / DefaultComparer    *)
(* plugins and the pickle-based backup of the gridSearch driver.           *)
(***************************************************************************)
EXTENDS Integers, Sequences, FiniteSets, TLC

VARIABLES
    it,         \* SpecIter: the iterator object under test
    shape,      \* SpecIter: the constructor arguments the iterator was built from
    returned,   \* SpecIter: non-None values returned by iterate() since the last reset()
    lastg,      \* SpecIter: return value of the last get()/iterate() call
    hist,       \* SpecIter: the last method called, and Len(returned) at the last reset()
    session,    \* the GridSearchSession object (logger included)
    trace,      \* observable events (function calls, logger hooks) so far
    exc,        \* exception raised by the last operation ("none" if it returned)
    steps,      \* spinOnce() calls on a running session since the last initialize()
    inits,      \* number of initialize() calls made so far
    drv,        \* SpecBackup: backup mode and position of the gridSearch call
    snapshot,   \* SpecBackup: contents of the backup file written by pickle.dump
    snapref,    \* SpecBackup: the in-memory session, Len(trace) and steps when the file was written
    restored,   \* SpecBackup: the session object a second process got from pickle.load
    rtrace,     \* SpecBackup: observable events produced by the restored session
    rexc,       \* SpecBackup: exception raised by the last operation on the restored session
    rfile       \* SpecBackup: contents of the backup file written by the second call

itervars == <<it, shape, returned, lastg, hist>>
backupvars == <<drv, snapshot, snapref, restored, rtrace, rexc, rfile>>
sessvars == <<session, trace, exc, steps, inits, drv, snapshot, snapref, restored, rtrace, rexc, rfile>>
vars == <<it, shape, returned, lastg, hist, session, trace, exc, steps, inits,
          drv, snapshot, snapref, restored, rtrace, rexc, rfile>>

(***************************************************************************)
(* Bounds of the model.                                                    *)
(***************************************************************************)
\* parameter lists of a session, positional and keyword together
MaxAxes == 2
\* sub-iterators of a combinator built directly
MaxIterAxes == 2
\* candidate values per parameter list / upper bound of a counter
MaxSize == 2
\* initialize() calls per session
MaxInits == 2

(***************************************************************************)
(* Python values.  A value that may be None is a record with a flag, so    *)
(* that "is None" never compares values of different types.                *)
(***************************************************************************)
None == [some |-> FALSE, v |-> <<>>]
Some(x) == [some |-> TRUE, v |-> x]

RECURSIVE Prod(_, _)
\* product of the first n entries of a sequence of sizes
Prod(s, n) == IF n = 0 THEN 1 ELSE s[n] * Prod(s, n - 1)

SeqsUpTo(S, n) == UNION {[1..k -> S] : k \in 0..n}

(***************************************************************************)
(* RangeIterator hierarchy.  An iterator object is a record tagged with    *)
(* its class; the four interface methods dispatch on the tag.              *)
(***************************************************************************)
RECURSIVE hasNext(_), get(_), reset(_), iterate(_), Carry(_, _), ResetAll(_, _)
RECURSIVE Carry_fromLast(_, _)

IntRangeIterator(upperbound) ==
    [kind |-> "int", upperbound |-> upperbound, pointer |-> 0]

\* variant: the bound test is off by one
Int_hasNext_inclusive(self) == self.pointer <= self.upperbound

Int_hasNext(self) == self.pointer < self.upperbound

Int_get(self) == IF ~Int_hasNext(self) THEN None ELSE Some(self.pointer)

\* variant: the pointer moves on also when there is nothing left
Int_iterate_unguarded(self) ==
    [it |-> [self EXCEPT !.pointer = self.pointer + 1], g |-> Int_get(self)]

Int_iterate(self) ==
    LET g == Int_get(self)
    IN  [it |-> IF g.some THEN [self EXCEPT !.pointer = self.pointer + 1] ELSE self,
         g  |-> g]

Int_reset(self) == [self EXCEPT !.pointer = 0]

Comb_hasNext(self) == self.iterable

Comb_get(self) ==
    IF ~Comb_hasNext(self) THEN None
    ELSE Some([i \in 1..Len(self.rangeiters) |-> get(self.rangeiters[i]).v])

\* variant: only the sub-iterator at position pt is reset
ResetAll_first(ris, pt) ==
    IF pt > Len(ris) THEN ris
    ELSE [ris EXCEPT ![pt] = reset(ris[pt])]

\* reset every sub-iterator from position pt on
ResetAll(ris, pt) ==
    IF pt > Len(ris) THEN ris
    ELSE ResetAll([ris EXCEPT ![pt] = reset(ris[pt])], pt + 1)

\* variant: iterable whenever there is a sub-iterator
Comb_reset_nonEmpty(self) ==
    LET ris == ResetAll(self.rangeiters, 1)
    IN  [self EXCEPT !.rangeiters = ris, !.iterable = Len(ris) > 0]

\* `self.rangeiters and all(...)`: an empty list is falsy
Comb_reset(self) ==
    LET ris == ResetAll(self.rangeiters, 1)
    IN  [self EXCEPT !.rangeiters = ris,
                     !.iterable = Len(ris) > 0 /\ \A i \in 1..Len(ris) : hasNext(ris[i])]

CombinedRangeIterator(rangeIterators) ==
    Comb_reset([kind |-> "comb", rangeiters |-> rangeIterators, iterable |-> FALSE])

\* variant: the carry starts at the last sub-iterator
Carry_fromLast(ris, pt) ==
    IF pt > Len(ris) THEN [ris |-> ris, returned |-> FALSE]
    ELSE LET q == Len(ris) + 1 - pt
             a == iterate(ris[q]).it
         IN  IF ~get(a).some
             THEN Carry_fromLast([ris EXCEPT ![q] = reset(a)], pt + 1)
             ELSE [ris |-> [ris EXCEPT ![q] = a], returned |-> TRUE]

\* the while loop of CombinedRangeIterator.iterate, from sub-iterator pt on;
\* returned is TRUE when the loop left through `return g`
Carry(ris, pt) ==
    IF pt > Len(ris) THEN [ris |-> ris, returned |-> FALSE]
    ELSE LET a == iterate(ris[pt]).it
         IN  IF ~get(a).some
             THEN Carry([ris EXCEPT ![pt] = reset(a)], pt + 1)
             ELSE [ris |-> [ris EXCEPT ![pt] = a], returned |-> TRUE]

\* variant: the carry loop runs also when get() returned None
Comb_iterate_unguarded(self) ==
    LET g == Comb_get(self)
        c == Carry(self.rangeiters, 1)
    IN  [it |-> [self EXCEPT !.rangeiters = c.ris,
                             !.iterable = IF c.returned THEN self.iterable ELSE FALSE],
         g  |-> g]

\* an iterate() on an exhausted combinator assigns False to iterable again
Comb_iterate(self) ==
    LET g == Comb_get(self)
    IN  IF g.some
        THEN LET c == Carry(self.rangeiters, 1)
             IN  [it |-> [self EXCEPT !.rangeiters = c.ris,
                                      !.iterable = IF c.returned THEN self.iterable ELSE FALSE],
                  g  |-> g]
        ELSE [it |-> [self EXCEPT !.iterable = FALSE], g |-> g]

Cext_hasNext(self) == hasNext(self.iterator)

Cext_get(self) ==
    IF ~Cext_hasNext(self) THEN None
    ELSE Some((IF self.lconst.some THEN self.lconst.v ELSE <<>>)
              \o <<get(self.iterator).v>>
              \o (IF self.rconst.some THEN self.rconst.v ELSE <<>>))

Cext_iterate(self) ==
    LET g == Cext_get(self)
    IN  [it |-> IF g.some THEN [self EXCEPT !.iterator = iterate(self.iterator).it] ELSE self,
         g  |-> g]

Cext_reset(self) == [self EXCEPT !.iterator = reset(self.iterator)]

ConstantExtendedRangeIterator(rangeiterator, constListBefore, constListAfter) ==
    Cext_reset([kind |-> "cext", iterator |-> rangeiterator,
                lconst |-> constListBefore, rconst |-> constListAfter])

hasNext(self) ==
    CASE self.kind = "int"  -> Int_hasNext(self)
      [] self.kind = "comb" -> Comb_hasNext(self)
      [] self.kind = "cext" -> Cext_hasNext(self)

get(self) ==
    CASE self.kind = "int"  -> Int_get(self)
      [] self.kind = "comb" -> Comb_get(self)
      [] self.kind = "cext" -> Cext_get(self)

reset(self) ==
    CASE self.kind = "int"  -> Int_reset(self)
      [] self.kind = "comb" -> Comb_reset(self)
      [] self.kind = "cext" -> Cext_reset(self)

iterate(self) ==
    CASE self.kind = "int"  -> Int_iterate(self)
      [] self.kind = "comb" -> Comb_iterate(self)
      [] self.kind = "cext" -> Cext_iterate(self)

\* [IntRangeIterator(len(pl)) for pl in lists]
Counters(sizes) == [i \in 1..Len(sizes) |-> IntRangeIterator(sizes[i])]

(***************************************************************************)
(* Python values of the function under test: an integer or None.           *)
(***************************************************************************)
PyNone == [isNone |-> TRUE, n |-> 0]
PyInt(n) == [isNone |-> FALSE, n |-> n]

\* variant: greater-or-equal
DefaultComparer_notWorse(left, right) ==
    IF left.isNone THEN right.isNone
    ELSE IF right.isNone THEN TRUE
    ELSE left.n >= right.n

\* left > right of Python 2, where None orders below every integer
DefaultComparer_leftBetterThanRight(left, right) ==
    IF left.isNone THEN FALSE
    ELSE IF right.isNone THEN TRUE
    ELSE left.n > right.n

(***************************************************************************)
(* DefaultLogger.  results is the dict params -> output, kept as the set   *)
(* of its items; the key tuple(posparams)+tuple(kwparams.items()) is kept  *)
(* as the pair of its two parts.                                           *)
(***************************************************************************)
NoBest == [some |-> FALSE, params |-> [pos |-> <<>>, kw |-> <<>>], output |-> PyNone]

DefaultLogger == [results |-> {}, best |-> NoBest]

Logger_initialize(self) == [self EXCEPT !.results = {}, !.best = NoBest]

Logger_update(self, posparams, kwparams, output) ==
    LET params == [pos |-> posparams, kw |-> kwparams]
    IN  [self EXCEPT !.results = {e \in self.results : e.params # params}
                                 \cup {[params |-> params, output |-> output]}]

Logger_logBest(self, bestposparams, bestkwparams, bestoutput) ==
    IF ~bestoutput.isNone
    THEN [self EXCEPT !.best = [some |-> TRUE,
                                params |-> [pos |-> bestposparams, kw |-> bestkwparams],
                                output |-> bestoutput]]
    ELSE self

(***************************************************************************)
(* The function under test: an opaque callable, drawn from a few kinds.    *)
(* Each kind is a deterministic function of the product of its arguments.  *)
(***************************************************************************)
FuncKinds == {"prod", "mod3", "none", "raiseMod3"}

RECURSIVE SeqProduct(_)
SeqProduct(s) == IF Len(s) = 0 THEN 1 ELSE Head(s) * SeqProduct(Tail(s))

\* kwparam is the dict built by _getKwParam, kept as its items (name, value)
ArgProduct(posparam, kwparam) ==
    SeqProduct(posparam) * SeqProduct([i \in 1..Len(kwparam) |-> kwparam[i][2]])

func(kind, posparam, kwparam) ==
    LET p == ArgProduct(posparam, kwparam)
    IN  CASE kind = "prod"      -> [raised |-> FALSE, val |-> PyInt(p)]
          [] kind = "mod3"      -> [raised |-> FALSE, val |-> PyInt(p % 3)]
          [] kind = "none"      -> [raised |-> FALSE, val |-> PyNone]
          [] kind = "raiseMod3" -> IF p % 3 = 2 THEN [raised |-> TRUE, val |-> PyNone]
                                   ELSE [raised |-> FALSE, val |-> PyInt(p)]

(***************************************************************************)
(* GridSearchSession.                                                      *)
(***************************************************************************)
Event(ev, posparam, kwparam, output) ==
    [ev |-> ev, pos |-> posparam, kw |-> kwparam, out |-> output]

\* variant: a session with one side missing is refused too
noParamLists_either(posparamlists, kwparamlists) ==
    Len(posparamlists) = 0 \/ Len(kwparamlists) = 0

\* the test of the constructor: not posparamlists and not kwparamlists
noParamLists(posparamlists, kwparamlists) ==
    Len(posparamlists) = 0 /\ Len(kwparamlists) = 0

\* kwparamlists is the sequence of (name, list) items of the keyword dict
GridSearchSession(fn, posparamlists, kwparamlists, comparer) ==
    LET kwnames == [i \in 1..Len(kwparamlists) |-> kwparamlists[i][1]]
        kwargs  == [i \in 1..Len(kwparamlists) |-> kwparamlists[i][2]]
        posits  == [i \in 1..Len(posparamlists) |-> IntRangeIterator(Len(posparamlists[i]))]
        kwits   == [i \in 1..Len(kwnames) |-> IntRangeIterator(Len(kwargs[i]))]
        fields(iter, ok) ==
            [constructed |-> ok,
             isrunning   |-> FALSE,
             func        |-> fn,
             posargs     |-> posparamlists,
             kwargs      |-> kwargs,
             kwnames     |-> kwnames,
             comparer    |-> comparer,
             logger      |-> DefaultLogger,
             iterator    |-> iter,
             bestOutput  |-> PyNone,
             bestParams  |-> [pos |-> <<>>, kw |-> <<>>]]
    IN  IF noParamLists(posparamlists, kwparamlists)
        THEN [exc |-> "ValueError", s |-> fields(IntRangeIterator(0), FALSE)]
        ELSE IF Len(posparamlists) = 0
        THEN [exc |-> "none",
              s |-> fields(ConstantExtendedRangeIterator(
                               CombinedRangeIterator(kwits), Some(<<>>), None), TRUE)]
        ELSE IF Len(kwnames) = 0
        THEN [exc |-> "none",
              s |-> fields(ConstantExtendedRangeIterator(
                               CombinedRangeIterator(posits), None, Some(<<>>)), TRUE)]
        ELSE [exc |-> "none",
              s |-> fields(CombinedRangeIterator(
                               <<CombinedRangeIterator(posits),
                                 CombinedRangeIterator(kwits)>>), TRUE)]

initialize(self) ==
    [self EXCEPT !.isrunning = TRUE,
                 !.logger = Logger_initialize(self.logger),
                 !.iterator = reset(self.iterator)]

isRunning(self) == self.isrunning

\* indices are 0-based in the code, sequences 1-based here
getPosParam(self, indices) ==
    [i \in 1..Len(self.posargs) |-> self.posargs[i][indices[i] + 1]]

getKwParam(self, indices) ==
    [i \in 1..Len(self.kwnames) |-> <<self.kwnames[i], self.kwargs[i][indices[i] + 1]>>]

notifyComparer(self, posparam, kwparam, output) ==
    IF self.comparer # "None"
    THEN IF self.bestOutput.isNone
            \/ DefaultComparer_leftBetterThanRight(output, self.bestOutput)
         THEN [self EXCEPT !.bestParams = [pos |-> posparam, kw |-> kwparam],
                           !.bestOutput = output]
         ELSE self
    ELSE self

notifyLogger(self, posparam, kwparam, output) ==
    [self EXCEPT !.logger = Logger_update(self.logger, posparam, kwparam, output)]

finalizeLogger(self) ==
    [self EXCEPT !.logger = Logger_logBest(self.logger, self.bestParams.pos,
                                           self.bestParams.kw, self.bestOutput)]

\* variant: a raising function is caught and its trial logged with output None
runTrial_catches(self, posparam, kwparam) ==
    LET output == func(self.func, posparam, kwparam)
        val    == IF output.raised THEN PyNone ELSE output.val
    IN  [s |-> notifyLogger(notifyComparer(self, posparam, kwparam, val),
                            posparam, kwparam, val),
         t |-> <<Event("call", posparam, kwparam, PyNone),
                 Event("update", posparam, kwparam, val)>>,
         exc |-> IF output.raised THEN "FuncError" ELSE "none"]

\* the call of the function under test and the two notifications that
\* follow it; an exception raised by the function skips them
runTrial(self, posparam, kwparam) ==
    LET output == func(self.func, posparam, kwparam)
    IN  IF output.raised
        THEN [s |-> self,
              t |-> <<Event("call", posparam, kwparam, PyNone)>>,
              exc |-> "FuncError"]
        ELSE [s |-> notifyLogger(notifyComparer(self, posparam, kwparam, output.val),
                                 posparam, kwparam, output.val),
              t |-> <<Event("call", posparam, kwparam, PyNone),
                      Event("update", posparam, kwparam, output.val)>>,
              exc |-> "none"]

\* a step that restarts a session which is not running
raiseNotRunning_restarts(self) ==
    [s |-> initialize(self), t |-> <<>>, exc |-> "none"]

\* raise Exception('Session is not running. Initialization needed.'): nothing
\* of the session has been touched yet
raiseNotRunning(self) ==
    [s |-> self, t |-> <<>>, exc |-> "Exception"]

\* variant: a step whose function raises leaves the iterator where it was
spinOnce_retries(self) ==
    IF ~self.isrunning
    THEN raiseNotRunning(self)
    ELSE LET r  == iterate(self.iterator)
             s1 == [self EXCEPT !.iterator = r.it]
         IN  IF r.g.some
             THEN LET indices == r.g.v
                  IN  IF Len(indices) < 2
                      THEN [s |-> s1, t |-> <<>>, exc |-> "IndexError"]
                      ELSE LET q == runTrial(s1, getPosParam(s1, indices[1]),
                                             getKwParam(s1, indices[2]))
                           IN  IF q.exc = "FuncError"
                               THEN [s |-> self, t |-> q.t, exc |-> q.exc]
                               ELSE q
             ELSE LET s2 == [s1 EXCEPT !.isrunning = FALSE]
                  IN  [s |-> finalizeLogger(s2),
                       t |-> <<Event("logBest", s2.bestParams.pos, s2.bestParams.kw,
                                     s2.bestOutput)>>,
                       exc |-> "none"]

\* one call of spinOnce: the session afterwards, the events it produced and
\* the exception it raised, if any; indices[1] of a tuple of one element
\* raises IndexError
spinOnce(self) ==
    IF ~self.isrunning
    THEN raiseNotRunning(self)
    ELSE LET r  == iterate(self.iterator)
             s1 == [self EXCEPT !.iterator = r.it]
         IN  IF r.g.some
             THEN LET indices == r.g.v
                  IN  IF Len(indices) < 2
                      THEN [s |-> s1, t |-> <<>>, exc |-> "IndexError"]
                      ELSE runTrial(s1, getPosParam(s1, indices[1]),
                                    getKwParam(s1, indices[2]))
             ELSE LET s2 == [s1 EXCEPT !.isrunning = FALSE]
                  IN  [s |-> finalizeLogger(s2),
                       t |-> <<Event("logBest", s2.bestParams.pos, s2.bestParams.kw,
                                     s2.bestOutput)>>,
                       exc |-> "none"]

RECURSIVE spinFrom(_, _, _)
\* the loop of spin: an exception raised by spinOnce ends it
spinFrom(self, t, n) ==
    IF ~isRunning(self) THEN [s |-> self, t |-> t, exc |-> "none", n |-> n]
    ELSE LET r == spinOnce(self)
         IN  IF r.exc # "none"
             THEN [s |-> r.s, t |-> t \o r.t, exc |-> r.exc, n |-> n + 1]
             ELSE spinFrom(r.s, t \o r.t, n + 1)

spin(self) == spinFrom(self, <<>>, 0)

(***************************************************************************)
(* pickle.dump / pickle.load of the session.  An instance is stored as its *)
(* class name and the values of its attributes, nested objects likewise;   *)
(* loading rebuilds each instance from the stored attributes and does not  *)
(* run __init__.                                                           *)
(***************************************************************************)
RECURSIVE dumpIterator(_), loadIterator(_)

dumpIterator(obj) ==
    CASE obj.kind = "int" ->
           [cls |-> "IntRangeIterator", state |-> <<obj.upperbound, obj.pointer>>]
      [] obj.kind = "comb" ->
           [cls |-> "CombinedRangeIterator",
            state |-> <<[i \in 1..Len(obj.rangeiters) |-> dumpIterator(obj.rangeiters[i])],
                        obj.iterable>>]
      [] obj.kind = "cext" ->
           [cls |-> "ConstantExtendedRangeIterator",
            state |-> <<dumpIterator(obj.iterator), obj.lconst, obj.rconst>>]

loadIterator(p) ==
    CASE p.cls = "IntRangeIterator" ->
           [kind |-> "int", upperbound |-> p.state[1], pointer |-> p.state[2]]
      [] p.cls = "CombinedRangeIterator" ->
           [kind |-> "comb",
            rangeiters |-> [i \in 1..Len(p.state[1]) |-> loadIterator(p.state[1][i])],
            iterable |-> p.state[2]]
      [] p.cls = "ConstantExtendedRangeIterator" ->
           [kind |-> "cext", iterator |-> loadIterator(p.state[1]),
            lconst |-> p.state[2], rconst |-> p.state[3]]

\* variant: the iterator is stored in its initial position
pickle_dump_fresh(obj) ==
    [cls |-> "GridSearchSession",
     state |-> <<obj.isrunning, obj.func, obj.posargs, obj.kwargs, obj.kwnames,
                 obj.comparer,
                 [cls |-> "DefaultLogger", state |-> <<obj.logger.results, obj.logger.best>>],
                 dumpIterator(reset(obj.iterator)), obj.bestOutput, obj.bestParams>>]

pickle_dump(obj) ==
    [cls |-> "GridSearchSession",
     state |-> <<obj.isrunning, obj.func, obj.posargs, obj.kwargs, obj.kwnames,
                 obj.comparer,
                 [cls |-> "DefaultLogger", state |-> <<obj.logger.results, obj.logger.best>>],
                 dumpIterator(obj.iterator), obj.bestOutput, obj.bestParams>>]

\* variant: loading runs the constructor of the iterator, which resets it
pickle_load_init(p) ==
    [constructed |-> TRUE,
     isrunning   |-> p.state[1],
     func        |-> p.state[2],
     posargs     |-> p.state[3],
     kwargs      |-> p.state[4],
     kwnames     |-> p.state[5],
     comparer    |-> p.state[6],
     logger      |-> [results |-> p.state[7].state[1], best |-> p.state[7].state[2]],
     iterator    |-> reset(loadIterator(p.state[8])),
     bestOutput  |-> p.state[9],
     bestParams  |-> p.state[10]]

pickle_load(p) ==
    [constructed |-> TRUE,
     isrunning   |-> p.state[1],
     func        |-> p.state[2],
     posargs     |-> p.state[3],
     kwargs      |-> p.state[4],
     kwnames     |-> p.state[5],
     comparer    |-> p.state[6],
     logger      |-> [results |-> p.state[7].state[1], best |-> p.state[7].state[2]],
     iterator    |-> loadIterator(p.state[8]),
     bestOutput  |-> p.state[9],
     bestParams  |-> p.state[10]]

(***************************************************************************)
(* gridSearch, one call from its first line to its last.  loadSession is   *)
(* the contents of the file to load, or None; backupSession tells whether  *)
(* a path is given.  The result holds the session at the end, the events   *)
(* produced, the exception that ended the call, the contents of the        *)
(* backup file and the number of times it was written.                     *)
(***************************************************************************)
RECURSIVE backupLoop(_, _, _, _)
\* while session.isRunning(): session.spinOnce(); pickle.dump(session, f)
backupLoop(self, t, file, n) ==
    IF ~isRunning(self)
    THEN [s |-> self, t |-> t, exc |-> "none", file |-> file, dumps |-> n]
    ELSE LET r == spinOnce(self)
         IN  IF r.exc # "none"
             THEN [s |-> r.s, t |-> t \o r.t, exc |-> r.exc, file |-> file, dumps |-> n]
             ELSE backupLoop(r.s, t \o r.t, Some(pickle_dump(r.s)), n + 1)

\* variant: the function and the comparer passed replace those of the loaded session
gridSearch_session_overrides(fn, posparamlists, kwparamlists, comparer, loadSession) ==
    IF loadSession.some
    THEN [exc |-> "none",
          s |-> [pickle_load(loadSession.v) EXCEPT !.func = fn, !.comparer = comparer]]
    ELSE LET r == GridSearchSession(fn, posparamlists, kwparamlists, comparer)
         IN  IF r.exc = "none" THEN [exc |-> "none", s |-> initialize(r.s)] ELSE r

\* the first half of gridSearch: the session is loaded from the file, or
\* constructed from the arguments and initialized
gridSearch_session(fn, posparamlists, kwparamlists, comparer, loadSession) ==
    IF loadSession.some
    THEN [exc |-> "none", s |-> pickle_load(loadSession.v)]
    ELSE LET r == GridSearchSession(fn, posparamlists, kwparamlists, comparer)
         IN  IF r.exc = "none" THEN [exc |-> "none", s |-> initialize(r.s)] ELSE r

\* the second half of gridSearch: spin(), which writes no file, or the loop
\* with the backup
gridSearch_run(self, backupSession) ==
    IF ~backupSession
    THEN spin(self) @@ [file |-> None, dumps |-> 0]
    ELSE backupLoop(self, <<>>, None, 0)

gridSearch(fn, posparamlists, kwparamlists, comparer, backupSession, loadSession) ==
    LET c == gridSearch_session(fn, posparamlists, kwparamlists, comparer, loadSession)
    IN  IF c.exc # "none"
        THEN [s |-> c.s, t |-> <<>>, exc |-> c.exc, file |-> None, dumps |-> 0]
        ELSE gridSearch_run(c.s, backupSession)

(***************************************************************************)
(* Inputs: the parameter space, the function and the comparer of a session.*)
(***************************************************************************)
KwNames == <<"y", "z", "w", "v", "u">>

Comparers == {"None", "DefaultComparer"}

SizeLists(n) == SeqsUpTo(0..MaxSize, n)

\* positional list i holds 1, 2, ...; keyword list i holds 10, 20, ...
PosLists(sizes) == [i \in 1..Len(sizes) |-> [j \in 1..sizes[i] |-> j]]

KwLists(sizes) == [i \in 1..Len(sizes) |-> <<KwNames[i], [j \in 1..sizes[i] |-> 10 * j]>>]

\* parameter spaces beyond the bounds: the x*y example of three by two
\* values, and one positional list with two keyword lists
ExampleSpaces ==
    {[pos |-> <<3>>, kw |-> <<2>>], [pos |-> <<2>>, kw |-> <<1, 2>>]}

Spaces ==
    {sp \in {[pos |-> p, kw |-> q] : p \in SizeLists(MaxAxes), q \in SizeLists(MaxAxes)} :
        Len(sp.pos) + Len(sp.kw) <= MaxAxes}
    \cup ExampleSpaces

Configs ==
    {[pos |-> sp.pos, kw |-> sp.kw, func |-> f, comparer |-> c] :
        sp \in Spaces, f \in FuncKinds, c \in Comparers}

NoSession == GridSearchSession("prod", <<>>, <<>>, "None").s

(***************************************************************************)
(* Spec: one session driven by its public operations.                      *)
(***************************************************************************)
\* no method called yet, reset() never called (-1)
NoCalls == [op |-> "none", resetAt |-> -1]

IterIdle ==
    /\ it = IntRangeIterator(0)
    /\ shape = [kind |-> "none", a |-> <<>>, b |-> <<>>]
    /\ returned = <<>>
    /\ lastg = None
    /\ hist = NoCalls

BackupIdle ==
    /\ drv = [backup |-> FALSE, pc |-> "none"]
    /\ snapshot = None
    /\ snapref = None
    /\ restored = None
    /\ rtrace = <<>>
    /\ rexc = "none"
    /\ rfile = None

Init ==
    /\ IterIdle
    /\ BackupIdle
    /\ \E cfg \in Configs :
          LET r == GridSearchSession(cfg.func, PosLists(cfg.pos), KwLists(cfg.kw),
                                    cfg.comparer)
          IN  session = r.s /\ exc = r.exc
    /\ trace = <<>>
    /\ steps = 0
    /\ inits = 0

Initialize ==
    /\ session.constructed
    /\ inits < MaxInits
    /\ session' = initialize(session)
    /\ trace' = <<>>
    /\ exc' = "none"
    /\ steps' = 0
    /\ inits' = inits + 1
    /\ UNCHANGED backupvars
    /\ UNCHANGED itervars

SpinOnce ==
    /\ session.constructed
    /\ LET r == spinOnce(session)
       IN  /\ session' = r.s
           /\ trace' = trace \o r.t
           /\ exc' = r.exc
    /\ steps' = IF session.isrunning THEN steps + 1 ELSE steps
    /\ UNCHANGED inits
    /\ UNCHANGED backupvars
    /\ UNCHANGED itervars

Spin ==
    /\ session.constructed
    /\ LET r == spin(session)
       IN  /\ session' = r.s
           /\ trace' = trace \o r.t
           /\ exc' = r.exc
           /\ steps' = steps + r.n
    /\ UNCHANGED inits
    /\ UNCHANGED backupvars
    /\ UNCHANGED itervars

Next ==
    \/ Initialize
    \/ SpinOnce
    \/ Spin

Spec == Init /\ [][Next]_vars

(***************************************************************************)
(* SpecBackup: the gridSearch driver.  A first call builds and initializes *)
(* the session and runs it, either straight through or one step at a time  *)
(* with the backup file written after each step.  It can be interrupted at *)
(* any point; a second call in another process then loads the backup file  *)
(* and continues, and the first process does nothing more.  The second     *)
(* call is taken step by step (Load, RSpinOnce), or as a whole (Resume).   *)
(***************************************************************************)
\* session = GridSearchSession(...); session.initialize()
InitBackup ==
    /\ IterIdle
    /\ \E cfg \in Configs, backup \in BOOLEAN :
          LET r == GridSearchSession(cfg.func, PosLists(cfg.pos), KwLists(cfg.kw),
                                    cfg.comparer)
          IN  /\ session = IF r.exc = "none" THEN initialize(r.s) ELSE r.s
              /\ exc = r.exc
              /\ inits = IF r.exc = "none" THEN 1 ELSE 0
              /\ drv = [backup |-> backup, pc |-> IF r.exc = "none" THEN "loop" ELSE "raised"]
    /\ trace = <<>>
    /\ steps = 0
    /\ snapshot = None
    /\ snapref = None
    /\ restored = None
    /\ rtrace = <<>>
    /\ rexc = "none"
    /\ rfile = None

\* backupSession is None: session.spin()
DriverSpin ==
    /\ ~drv.backup
    /\ drv.pc = "loop"
    /\ ~restored.some
    /\ LET r == spin(session)
       IN  /\ session' = r.s
           /\ trace' = trace \o r.t
           /\ exc' = r.exc
           /\ steps' = steps + r.n
           /\ drv' = [drv EXCEPT !.pc = IF r.exc = "none" THEN "done" ELSE "raised"]
    /\ UNCHANGED <<inits, snapshot, snapref, restored, rtrace, rexc, rfile>>
    /\ UNCHANGED itervars

\* while session.isRunning(): session.spinOnce()
DriverStep ==
    /\ drv.backup
    /\ drv.pc = "loop"
    /\ ~restored.some
    /\ isRunning(session)
    /\ LET r == spinOnce(session)
       IN  /\ session' = r.s
           /\ trace' = trace \o r.t
           /\ exc' = r.exc
           /\ drv' = [drv EXCEPT !.pc = IF r.exc = "none" THEN "dump" ELSE "raised"]
    /\ steps' = steps + 1
    /\ UNCHANGED <<inits, snapshot, snapref, restored, rtrace, rexc, rfile>>
    /\ UNCHANGED itervars

\* pickle.dump(session, f), then the loop test
Dump ==
    /\ drv.pc = "dump"
    /\ ~restored.some
    /\ snapshot' = Some(pickle_dump(session))
    /\ snapref' = Some([s |-> session, at |-> Len(trace), steps |-> steps])
    /\ drv' = [drv EXCEPT !.pc = IF isRunning(session) THEN "loop" ELSE "done"]
    /\ UNCHANGED <<session, trace, exc, steps, inits, restored, rtrace, rexc, rfile>>
    /\ UNCHANGED itervars

\* session = pickle.load(fileContent) in a second process
Load ==
    /\ snapshot.some
    /\ ~restored.some
    /\ restored' = Some(pickle_load(snapshot.v))
    /\ rtrace' = <<>>
    /\ rexc' = "none"
    /\ UNCHANGED <<session, trace, exc, steps, inits, drv, snapshot, snapref, rfile>>
    /\ UNCHANGED itervars

\* the second call, one step at a time
RSpinOnce ==
    /\ restored.some
    /\ isRunning(restored.v)
    /\ LET r == spinOnce(restored.v)
       IN  /\ restored' = Some(r.s)
           /\ rtrace' = rtrace \o r.t
           /\ rexc' = r.exc
    /\ UNCHANGED <<session, trace, exc, steps, inits, drv, snapshot, snapref, rfile>>
    /\ UNCHANGED itervars

\* the second call, straight through
RSpin ==
    /\ restored.some
    /\ LET r == spin(restored.v)
       IN  /\ restored' = Some(r.s)
           /\ rtrace' = rtrace \o r.t
           /\ rexc' = r.exc
    /\ UNCHANGED <<session, trace, exc, steps, inits, drv, snapshot, snapref, rfile>>
    /\ UNCHANGED itervars

\* the other arguments of the second call: none but the defaults, or the
\* lists of the x*y example with a function that raises and a comparer, and
\* backupSession given or not
CallArgs ==
    {[cfg |-> cfg, backup |-> b] :
        cfg \in {[pos |-> <<>>, kw |-> <<>>, func |-> "prod", comparer |-> "None"],
                 [pos |-> <<3>>, kw |-> <<2>>, func |-> "raiseMod3",
                  comparer |-> "DefaultComparer"]},
        b \in BOOLEAN}

\* the second call as a whole: gridSearch(..., loadSession = the file)
Resume ==
    /\ snapshot.some
    /\ ~restored.some
    /\ \E a \in CallArgs :
          \E r \in {gridSearch(a.cfg.func, PosLists(a.cfg.pos), KwLists(a.cfg.kw),
                               a.cfg.comparer, a.backup, snapshot)} :
              /\ restored' = Some(r.s)
              /\ rtrace' = r.t
              /\ rexc' = r.exc
              /\ rfile' = r.file
    /\ UNCHANGED <<session, trace, exc, steps, inits, drv, snapshot, snapref>>
    /\ UNCHANGED itervars

NextBackup ==
    \/ Resume
    \/ DriverSpin
    \/ DriverStep
    \/ Dump
    \/ Load
    \/ RSpinOnce
    \/ RSpin

SpecBackup == InitBackup /\ [][NextBackup]_vars

(***************************************************************************)
(* SpecIter: one iterator object driven through the RangeIterator          *)
(* interface.                                                              *)
(***************************************************************************)
\* combinators beyond the bounds: the [2,3] example, and three axes with a
\* carry through a middle axis of size 1
ExampleShapes ==
    {[kind |-> "comb", a |-> <<2, 3>>, b |-> <<>>],
     [kind |-> "comb", a |-> <<2, 1, 2>>, b |-> <<>>],
     [kind |-> "nest", a |-> <<2, 1>>, b |-> <<2>>]}

Shapes ==
    {[kind |-> "int", a |-> <<n>>, b |-> <<>>] : n \in 0..MaxSize}
    \cup ExampleShapes
    \cup {[kind |-> "comb", a |-> a, b |-> <<>>] : a \in SizeLists(MaxIterAxes)}
    \cup {[kind |-> "cext", a |-> a, b |-> <<>>] : a \in SizeLists(MaxIterAxes)}
    \cup {sh \in {[kind |-> "nest", a |-> a, b |-> b] :
                    a \in SizeLists(MaxIterAxes), b \in SizeLists(MaxIterAxes)} :
             Len(sh.a) + Len(sh.b) <= MaxIterAxes}

Build(sh) ==
    CASE sh.kind = "int"  -> IntRangeIterator(sh.a[1])
      [] sh.kind = "comb" -> CombinedRangeIterator(Counters(sh.a))
      [] sh.kind = "cext" -> ConstantExtendedRangeIterator(
                                 CombinedRangeIterator(Counters(sh.a)), Some(<<>>), None)
      [] sh.kind = "nest" -> CombinedRangeIterator(
                                 <<CombinedRangeIterator(Counters(sh.a)),
                                   CombinedRangeIterator(Counters(sh.b))>>)

SessIdle ==
    /\ BackupIdle
    /\ session = NoSession
    /\ trace = <<>>
    /\ exc = "none"
    /\ steps = 0
    /\ inits = 0

InitIter ==
    /\ SessIdle
    /\ \E sh \in Shapes : shape = sh /\ it = Build(sh)
    /\ returned = <<>>
    /\ lastg = None
    /\ hist = NoCalls

DoIterate ==
    /\ shape.kind # "none"
    /\ LET r == iterate(it)
       IN  /\ it' = r.it
           /\ lastg' = r.g
           /\ returned' = IF r.g.some THEN Append(returned, r.g.v) ELSE returned
    /\ hist' = [hist EXCEPT !.op = "iterate"]
    /\ UNCHANGED shape
    /\ UNCHANGED sessvars

DoGet ==
    /\ shape.kind # "none"
    /\ lastg' = get(it)
    /\ hist' = [hist EXCEPT !.op = "get"]
    /\ UNCHANGED <<it, shape, returned>>
    /\ UNCHANGED sessvars

DoReset ==
    /\ shape.kind # "none"
    /\ it' = reset(it)
    /\ returned' = <<>>
    /\ lastg' = None
    /\ hist' = [op |-> "reset", resetAt |-> Len(returned)]
    /\ UNCHANGED shape
    /\ UNCHANGED sessvars

NextIter ==
    \/ DoIterate
    \/ DoGet
    \/ DoReset

SpecIter == InitIter /\ [][NextIter]_vars

(***************************************************************************)
(* Properties of the iterators (SpecIter).                                 *)
(***************************************************************************)
\* a CombinedRangeIterator built directly over counters, every size >= 1
FlatNonEmpty ==
    /\ shape.kind = "comb"
    /\ Len(shape.a) >= 1
    /\ \A i \in 1..Len(shape.a) : shape.a[i] >= 1

\* the index tuples of the Cartesian product of [0, sizes[i])
CartesianSet(sizes) ==
    {t \in [1..Len(sizes) -> 0..MaxSize + 1] : \A i \in 1..Len(sizes) : t[i] < sizes[i]}

Returned == {returned[k] : k \in 1..Len(returned)}

\* C1: over counters of sizes >= 1, the values iterate() returns after a
\* reset are elements of the Cartesian product, no element is returned
\* twice, and hasNext() is false exactly when all of them have been
\* returned (so it turns false right after the last one).
C1_ExactlyOnce ==
    FlatNonEmpty =>
        /\ \A k \in 1..Len(returned) : returned[k] \in CartesianSet(shape.a)
        /\ \A k1, k2 \in 1..Len(returned) : k1 # k2 => returned[k1] # returned[k2]
        /\ hasNext(it) <=> Len(returned) < Prod(shape.a, Len(shape.a))
        /\ ~hasNext(it) => Returned = CartesianSet(shape.a)

C1_Witness ==
    /\ FlatNonEmpty
    /\ Len(shape.a) >= 2
    /\ \A i \in 1..Len(shape.a) : shape.a[i] >= 2
    /\ ~hasNext(it)
    /\ Len(returned) = Prod(shape.a, Len(shape.a))
    /\ ~lastg.some

\* the k-th tuple (k from 1) of the odometer order with the first axis fastest
OdometerTuple(sizes, k) ==
    [i \in 1..Len(sizes) |-> ((k - 1) \div Prod(sizes, i - 1)) % sizes[i]]

IsPrefix(s, t) == Len(s) <= Len(t) /\ \A k \in 1..Len(s) : s[k] = t[k]

\* C2: the k-th tuple returned after reset() has at position i the value
\* (k div (size_0*...*size_{i-1})) mod size_i, the first axis moving
\* fastest; sizes [2,3] give [0,0],[1,0],[0,1],[1,1],[0,2],[1,2].
C2_OdometerOrder ==
    FlatNonEmpty =>
        /\ \A k \in 1..Len(returned) : returned[k] = OdometerTuple(shape.a, k)
        /\ shape.a = <<2, 3>> =>
              IsPrefix(returned, << <<0, 0>>, <<1, 0>>, <<0, 1>>, <<1, 1>>, <<0, 2>>, <<1, 2>> >>)

C2_Witness ==
    /\ shape.kind = "comb"
    /\ shape.a = <<2, 3>>
    /\ Len(returned) = 6
    /\ returned[6] = <<1, 2>>

(***************************************************************************)
(* Properties of the session (Spec).                                       *)
(***************************************************************************)
IsCall(e) == e.ev = "call"
IsUpdate(e) == e.ev = "update"
IsLogBest(e) == e.ev = "logBest"

\* the invocations of the function under test, and the logger updates
Calls(t) == SelectSeq(t, IsCall)
Updates(t) == SelectSeq(t, IsUpdate)

Params(t) == [k \in 1..Len(t) |-> <<t[k].pos, t[k].kw>>]
Outputs(t) == [k \in 1..Len(t) |-> t[k].out]

PosSizes(self) == [i \in 1..Len(self.posargs) |-> Len(self.posargs[i])]
KwSizes(self) == [i \in 1..Len(self.kwargs) |-> Len(self.kwargs[i])]

\* N: the number of combinations of the parameter space
NCombos(self) ==
    Prod(PosSizes(self), Len(self.posargs)) * Prod(KwSizes(self), Len(self.kwargs))

BothVary(self) == Len(self.posargs) > 0 /\ Len(self.kwnames) > 0
OneSided(self) == self.constructed /\ ~BothVary(self)

\* the session of the x*y example
IsExample(self) ==
    /\ self.constructed
    /\ self.func = "prod"
    /\ self.posargs = << <<1, 2, 3>> >>
    /\ self.kwnames = <<"y">>
    /\ self.kwargs = << <<10, 20>> >>

XY(x, y) == << <<x>>, << <<"y", y>> >> >>

Ints(s) == [k \in 1..Len(s) |-> PyInt(s[k])]

\* C3 as stated: with both sides varying the keyword axis advances
\* fastest; the example calls (1,10),(1,20),(2,10),(2,20),(3,10),(3,20)
\* and produces 10,20,20,40,30,60.
C3_KeywordFastest ==
    IsExample(session) =>
        /\ IsPrefix(Params(Calls(trace)),
                    <<XY(1, 10), XY(1, 20), XY(2, 10), XY(2, 20), XY(3, 10), XY(3, 20)>>)
        /\ IsPrefix(Outputs(Updates(trace)), Ints(<<10, 20, 20, 40, 30, 60>>))

\* the k-th trial (k from 1) of a session in which both sides vary, the
\* positional axes moving fastest
ExpectedTrial(self, k) ==
    LET npos == Prod(PosSizes(self), Len(self.posargs))
    IN  <<getPosParam(self, OdometerTuple(PosSizes(self), ((k - 1) % npos) + 1)),
          getKwParam(self, OdometerTuple(KwSizes(self), ((k - 1) \div npos) + 1))>>

\* C3 amended: with both sides varying the first (positional) axis
\* advances fastest and the keyword axes roll over last; the example calls
\* (1,10),(2,10),(3,10),(1,20),(2,20),(3,20) and produces 10,20,30,20,40,60.
C3_PositionalFastest ==
    /\ (session.constructed /\ BothVary(session)) =>
          \A k \in 1..Len(Calls(trace)) :
              Params(Calls(trace))[k] = ExpectedTrial(session, k)
    /\ IsExample(session) =>
          /\ IsPrefix(Params(Calls(trace)),
                      <<XY(1, 10), XY(2, 10), XY(3, 10), XY(1, 20), XY(2, 20), XY(3, 20)>>)
          /\ IsPrefix(Outputs(Updates(trace)), Ints(<<10, 20, 30, 20, 40, 60>>))

C3_Witness ==
    /\ IsExample(session)
    /\ ~session.isrunning
    /\ Len(Calls(trace)) = 6
    /\ Outputs(Updates(trace)) = Ints(<<10, 20, 30, 20, 40, 60>>)

\* C4: a session in which only one side varies runs without raising,
\* completes one trial per combination and terminates; with lists [[1,2]]
\* and the greater-than comparer it ends with the larger output as best.
C4_OneSidedCompletes ==
    (OneSided(session) /\ inits >= 1) =>
        /\ exc # "IndexError"
        /\ ~session.isrunning =>
              /\ Len(Updates(trace)) = NCombos(session)
              /\ (/\ session.posargs = << <<1, 2>> >>
                  /\ session.comparer = "DefaultComparer"
                  /\ session.func \in {"prod", "mod3"})
                 => ~session.bestOutput.isNone

\* C5: in every wiring a non-None value of the top-level iterator is a
\* pair (posIndices, kwIndices) with one index per positional list and one
\* per keyword name.
C5_IndexPair ==
    session.constructed =>
        LET g == get(session.iterator)
        IN  g.some =>
              /\ Len(g.v) = 2
              /\ Len(g.v[1]) = Len(session.posargs)
              /\ Len(g.v[2]) = Len(session.kwnames)

\* the function under test returns on every call
AlwaysReturns(self) == self.func \in {"prod", "mod3", "none"}

Min(a, b) == IF a <= b THEN a ELSE b

\* C7: from an initialized session over N combinations, each of the first
\* N steps makes one call followed by one logger update, step N+1 makes no
\* call, clears the running flag and calls logBest once, nothing is logged
\* after it, and no step raises (so spin() ends after exactly N+1 steps).
C7_StepsToTermination ==
    (session.constructed /\ inits >= 1 /\ AlwaysReturns(session)) =>
        LET n == NCombos(session)
            m == Min(steps, n)
        IN  /\ exc \notin {"IndexError", "FuncError"}
            /\ steps <= n + 1
            /\ session.isrunning <=> steps <= n
            /\ Len(trace) = 2 * m + (IF steps = n + 1 THEN 1 ELSE 0)
            /\ \A k \in 1..m :
                  /\ trace[2 * k - 1].ev = "call"
                  /\ trace[2 * k].ev = "update"
                  /\ trace[2 * k].pos = trace[2 * k - 1].pos
                  /\ trace[2 * k].kw = trace[2 * k - 1].kw
            /\ steps = n + 1 => trace[2 * n + 1].ev = "logBest"

\* the largest of a non-empty sequence of integer outputs
MaxOutput(u) == CHOOSE x \in {u[k].out.n : k \in 1..Len(u)} :
                    \A k \in 1..Len(u) : u[k].out.n <= x

\* the first position at which the output x occurs
FirstWith(u, x) == CHOOSE k \in 1..Len(u) :
                      /\ u[k].out.n = x
                      /\ \A j \in 1..(k - 1) : u[j].out.n # x

\* C8: with the greater-than comparer and outputs that are never None, a
\* terminated session holds as best output the maximum over the trials it
\* executed and as best parameters those of the first trial that produced
\* it; the x*y example ends with 60 at (x=3, y=20).
C8_BestIsFirstMaximum ==
    LET u == Updates(trace)
    IN  (/\ session.constructed
         /\ session.comparer = "DefaultComparer"
         /\ inits >= 1
         /\ ~session.isrunning
         /\ Len(u) > 0
         /\ \A k \in 1..Len(u) : ~u[k].out.isNone)
        => /\ session.bestOutput = PyInt(MaxOutput(u))
           /\ session.bestParams = [pos |-> u[FirstWith(u, MaxOutput(u))].pos,
                                    kw  |-> u[FirstWith(u, MaxOutput(u))].kw]
           /\ IsExample(session) =>
                 /\ session.bestOutput = PyInt(60)
                 /\ session.bestParams = [pos |-> <<3>>, kw |-> << <<"y", 20>> >>]

\* a terminated run in which a later trial equalled the maximum
C8_Witness ==
    LET u == Updates(trace)
    IN  /\ session.constructed
        /\ session.comparer = "DefaultComparer"
        /\ ~session.isrunning
        /\ Len(u) >= 3
        /\ \A k \in 1..Len(u) : ~u[k].out.isNone
        /\ \E k \in 1..Len(u) : k > FirstWith(u, MaxOutput(u)) /\ u[k].out.n = MaxOutput(u)
        /\ session.bestOutput = PyInt(MaxOutput(u))

NoParams == [pos |-> <<>>, kw |-> <<>>]

\* C9: the best state starts empty; once a trial has been recorded as best
\* it is replaced only when the comparer answers true for (new output,
\* current best output), whatever the outputs are; without a comparer it
\* never changes.
C9_ReplacedOnlyOnVerdict ==
    /\ session.bestOutput.isNone /\ session.bestParams = NoParams
    /\ [][/\ (session.bestParams # NoParams /\ session'.bestParams # session.bestParams)
             => /\ session.comparer # "None"
                /\ DefaultComparer_leftBetterThanRight(session'.bestOutput,
                                                       session.bestOutput)
          /\ session.comparer = "None"
             => /\ session'.bestParams = session.bestParams
                /\ session'.bestOutput = session.bestOutput]_vars

\* C10: when the function under test raises during a step, the error
\* leaves the step, the best state and the logger are what they were
\* before the step, no logger update is made for the trial and the session
\* is still running.
C10_FailedTrialLeavesState ==
    [][steps' = steps + 1 =>
          LET failed == /\ Len(trace') = Len(trace) + 1
                        /\ trace'[Len(trace')].ev = "call"
          IN  /\ failed <=> exc' = "FuncError"
              /\ exc' = "FuncError" =>
                    /\ session'.bestParams = session.bestParams
                    /\ session'.bestOutput = session.bestOutput
                    /\ session'.logger = session.logger
                    /\ session'.isrunning]_vars

C10_Witness ==
    /\ exc = "FuncError"
    /\ session.isrunning
    /\ Len(Updates(trace)) >= 1
    /\ ~session.bestOutput.isNone
    /\ trace[Len(trace)].ev = "call"

(***************************************************************************)
(* Properties of the backup (SpecBackup).                                  *)
(***************************************************************************)
RECURSIVE StepsToEnd(_, _)
\* the session stepped until it has terminated, whatever a step raises
StepsToEnd(self, t) ==
    IF ~isRunning(self) THEN [s |-> self, t |-> t]
    ELSE LET r == spinOnce(self) IN StepsToEnd(r.s, t \o r.t)

Terminated(self) == self.constructed /\ inits >= 1 /\ ~self.isrunning

\* C11: spinOnce() on a session that is not running (never initialized, or
\* terminated) raises, and leaves the session as it was: iterator position,
\* best output and parameters, logger and running flag are unchanged, and
\* the function is not called (no event is produced).
C11_StepWhenNotRunning ==
    [][(SpinOnce /\ ~session.isrunning) =>
           /\ exc' = "Exception"
           /\ session' = session
           /\ trace' = trace
           /\ steps' = steps]_vars

C11_Witness ==
    /\ Terminated(session)
    /\ exc = "Exception"
    /\ Len(Calls(trace)) >= 2
    /\ ~session.bestOutput.isNone

\* C12 as stated: once terminated, a session never runs again.
C12_NeverRunsAgain ==
    [][Terminated(session) => ~session'.isrunning]_vars

\* C12 amended: spinOnce(), spin() and isRunning() leave a terminated
\* session terminated; the one operation that brings it back to running is
\* initialize(), which restarts the enumeration from the first combination
\* with an emptied logger.
C12_OnlyInitializeRestarts ==
    [][(Terminated(session) /\ session'.isrunning) =>
           /\ inits' = inits + 1
           /\ session' = initialize(session)
           /\ session'.iterator = reset(session.iterator)
           /\ session'.logger = DefaultLogger]_vars

C12_Witness ==
    /\ session.constructed
    /\ inits = 2
    /\ session.isrunning
    /\ steps = 0
    /\ ~session.bestOutput.isNone

\* C17: the constructor raises ValueError, and yields no session, exactly
\* when it is given no positional list and no keyword entry; with at least
\* one list or entry, an empty list included, it yields a session that is
\* not running yet.
C17_ConstructionFailsIffNoLists ==
    /\ session.constructed <=> (Len(session.posargs) + Len(session.kwnames) > 0)
    /\ ~session.constructed =>
           (exc = "ValueError" /\ inits = 0 /\ steps = 0 /\ trace = <<>>)
    /\ (session.constructed /\ inits = 0) =>
           (~session.isrunning /\ exc # "ValueError" /\ session.bestOutput.isNone)

C17_Witness ==
    /\ ~session.constructed
    /\ exc = "ValueError"
    /\ Len(session.posargs) = 0
    /\ Len(session.kwnames) = 0

(***************************************************************************)
(* Empty axes (Spec).                                                      *)
(***************************************************************************)
RECURSIVE ContainsEmptyAxis(_), ContainersExhausted(_)

\* some counter below itr has upper bound 0
ContainsEmptyAxis(itr) ==
    CASE itr.kind = "int"  -> itr.upperbound = 0
      [] itr.kind = "comb" ->
             \E i \in 1..Len(itr.rangeiters) : ContainsEmptyAxis(itr.rangeiters[i])
      [] itr.kind = "cext" -> ContainsEmptyAxis(itr.iterator)

\* every iterator at or below itr that contains an empty axis has no next
ContainersExhausted(itr) ==
    /\ ContainsEmptyAxis(itr) => (~hasNext(itr) /\ ~get(itr).some)
    /\ CASE itr.kind = "int"  -> TRUE
         [] itr.kind = "comb" ->
                \A i \in 1..Len(itr.rangeiters) : ContainersExhausted(itr.rangeiters[i])
         [] itr.kind = "cext" -> ContainersExhausted(itr.iterator)

HasEmptyList(self) ==
    \/ \E i \in 1..Len(self.posargs) : Len(self.posargs[i]) = 0
    \/ \E i \in 1..Len(self.kwargs) : Len(self.kwargs[i]) = 0

\* C13: when some parameter list is empty, the combinator that owns its
\* counter and every combinator or adapter around it have no next, whatever
\* the sizes of the other lists, from construction on (the constructors and
\* initialize() end with reset()); the initialized session makes no call,
\* terminates on its first step without raising, and reports no best.
C13_EmptyAxisEmptySpace ==
    (session.constructed /\ HasEmptyList(session)) =>
        /\ ContainsEmptyAxis(session.iterator)
        /\ ContainersExhausted(session.iterator)
        /\ NCombos(session) = 0
        /\ inits >= 1 =>
               /\ Len(Calls(trace)) = 0
               /\ Len(Updates(trace)) = 0
               /\ exc \notin {"IndexError", "FuncError"}
               /\ steps <= 1
               /\ session.isrunning <=> steps = 0
               /\ steps = 1 =>
                      trace = <<Event("logBest", <<>>, <<>>, PyNone)>>
               /\ session.bestOutput.isNone
               /\ session.bestParams = NoParams
               /\ ~session.logger.best.some

C13_Witness ==
    /\ Terminated(session)
    /\ HasEmptyList(session)
    /\ BothVary(session)
    /\ \E i \in 1..Len(session.posargs) : Len(session.posargs[i]) = MaxSize
    /\ steps = 1
    /\ Len(trace) = 1

(***************************************************************************)
(* Trials whose function raises (Spec).                                    *)
(***************************************************************************)

\* C19: spinOnce() advances the iterator before it calls the function, so a
\* trial whose function raises has consumed its index tuple: within one
\* run no combination is called twice, with both sides varying the k-th
\* step calls the k-th combination whether or not earlier calls raised,
\* and the session still terminates on step N+1 exactly.
C19_FailedTrialConsumed ==
    (session.constructed /\ inits >= 1) =>
        LET n == NCombos(session)
            c == Params(Calls(trace))
        IN  /\ steps <= n + 1
            /\ session.isrunning <=> steps <= n
            /\ \A j, k \in 1..Len(c) : j # k => c[j] # c[k]
            /\ BothVary(session) =>
                   /\ Len(c) = Min(steps, n)
                   /\ \A k \in 1..Len(c) : c[k] = ExpectedTrial(session, k)

C19_Witness ==
    /\ Terminated(session)
    /\ session.func = "raiseMod3"
    /\ steps = NCombos(session) + 1
    /\ Len(Calls(trace)) >= 4
    /\ \E k \in 1..(Len(trace) - 2) :
           /\ trace[k].ev = "call"
           /\ trace[k + 1].ev = "call"
           /\ trace[k + 2].ev = "update"

(***************************************************************************)
(* Reset, exhaustion and well-formedness of the iterators (SpecIter).      *)
(***************************************************************************)
RECURSIVE Remaining(_), WellFormed(_), ValueOK(_, _), AtStart(_)

\* the values iterate() returns from itr on, up to the first None
Remaining(itr) ==
    LET r == iterate(itr)
    IN  IF r.g.some THEN <<r.g.v>> \o Remaining(r.it) ELSE <<>>

\* C14: reset() after any number of iterate() calls, exhaustion included,
\* leaves a counter, a flat or nested combinator or an adapter in a state
\* from which repeated iterate() returns the full sequence a freshly
\* constructed iterator returns: what has been returned since the reset,
\* followed by what is still to come, is that sequence.
C14_ResetRestoresFullSequence ==
    /\ Remaining(reset(it)) = Remaining(Build(shape))
    /\ hist.resetAt >= 0 =>
           returned \o Remaining(it) = Remaining(Build(shape))

C14_Witness ==
    /\ shape.kind = "nest"
    /\ hist.resetAt = Len(Remaining(Build(shape)))
    /\ ~hasNext(it)
    /\ Len(returned) >= 4

\* pointers within bounds, and an iterable combinator has only sub-iterators
\* that have a next (so that no entry of its get() is None)
WellFormed(itr) ==
    CASE itr.kind = "int"  -> 0 <= itr.pointer /\ itr.pointer <= itr.upperbound
      [] itr.kind = "comb" ->
             /\ hasNext(itr) =>
                    \A i \in 1..Len(itr.rangeiters) :
                        hasNext(itr.rangeiters[i]) /\ get(itr.rangeiters[i]).some
             /\ \A i \in 1..Len(itr.rangeiters) : WellFormed(itr.rangeiters[i])
      [] itr.kind = "cext" -> WellFormed(itr.iterator)

\* v has the form of a value of itr: an index below the bound for a
\* counter, one value per sub-iterator for a combinator
ValueOK(itr, v) ==
    CASE itr.kind = "int"  -> v \in 0..(itr.upperbound - 1)
      [] itr.kind = "comb" ->
             /\ Len(v) = Len(itr.rangeiters)
             /\ \A i \in 1..Len(v) : ValueOK(itr.rangeiters[i], v[i])
      [] itr.kind = "cext" ->
             LET nl == IF itr.lconst.some THEN Len(itr.lconst.v) ELSE 0
                 nr == IF itr.rconst.some THEN Len(itr.rconst.v) ELSE 0
             IN  /\ Len(v) = nl + 1 + nr
                 /\ ValueOK(itr.iterator, v[nl + 1])

\* C16: every counter keeps 0 <= pointer <= upperbound; whenever a
\* combinator has a next, so has each of its sub-iterators; and every
\* value get() or iterate() returned has one entry per sub-iterator, each
\* an index below the bound of its counter.
C16_IteratorInvariants ==
    /\ WellFormed(it)
    /\ lastg.some => ValueOK(it, lastg.v)
    /\ \A k \in 1..Len(returned) : ValueOK(it, returned[k])

C16_Witness ==
    /\ shape.kind = "nest"
    /\ hist.op = "iterate"
    /\ lastg.some
    /\ hasNext(it)
    /\ Len(returned) >= 2

\* every counter below itr is at 0 and every combinator iterable as after
\* its reset()
AtStart(itr) ==
    CASE itr.kind = "int"  -> itr.pointer = 0
      [] itr.kind = "comb" ->
             /\ \A i \in 1..Len(itr.rangeiters) : AtStart(itr.rangeiters[i])
             /\ itr.iterable <=>
                    (Len(itr.rangeiters) > 0
                     /\ \A i \in 1..Len(itr.rangeiters) : hasNext(itr.rangeiters[i]))
      [] itr.kind = "cext" -> AtStart(itr.iterator)

\* the combinator whose carry loop exhausts the iterator
Combinator(itr) == IF itr.kind = "cext" THEN itr.iterator ELSE itr

\* C20: iterate() on an exhausted iterator returns None and leaves the
\* iterator and all its sub-iterators as they were, however often it is
\* called; and when an iterate() exhausts a combinator by carrying past its
\* last sub-iterator, every sub-iterator is back at its initial position.
C20_ExhaustedIterateIsIdle ==
    /\ [][(DoIterate /\ ~hasNext(it)) =>
              (it' = it /\ ~lastg'.some /\ returned' = returned)]_vars
    /\ [][(DoIterate /\ hasNext(it) /\ ~hasNext(it') /\ shape.kind # "int") =>
              \A i \in 1..Len(Combinator(it').rangeiters) :
                  AtStart(Combinator(it').rangeiters[i])]_vars

C20_Witness ==
    /\ shape.kind = "nest"
    /\ hist.op = "iterate"
    /\ ~lastg.some
    /\ ~hasNext(it)
    /\ Len(returned) >= 4

(***************************************************************************)
(* The backup loop of gridSearch and a resumed run (SpecBackup).           *)
(***************************************************************************)
\* every combination of the parameter space, as the arguments of a call
AllCombos(self) ==
    {<<getPosParam(self, pi), getKwParam(self, ki)>> :
        pi \in CartesianSet(PosSizes(self)), ki \in CartesianSet(KwSizes(self))}

Range(sq) == {sq[k] : k \in 1..Len(sq)}

\* the calls of the resumed run that the interrupted run had made already
Repeated == {k \in 1..Len(Calls(rtrace)) :
                Params(Calls(rtrace))[k] \in Range(Params(Calls(trace)))}

\* C18: with backupSession given, the file is written after every step
\* that returns, the terminating one included, so it is never more than
\* one step behind the session in memory; a run interrupted after the
\* first write and resumed from the file repeats at most one call, the one
\* made between the last write and the interruption, and the two runs
\* together call every combination.
C18_BackupLagsOneStep ==
    drv.backup =>
        /\ (steps >= 1 /\ drv.pc \in {"loop", "done"}) =>
               /\ snapshot.some
               /\ pickle_load(snapshot.v) = session
               /\ snapref.v.steps = steps
        /\ drv.pc = "done" => (snapshot.some /\ ~pickle_load(snapshot.v).isrunning)
        /\ snapshot.some =>
               /\ steps - snapref.v.steps \in {0, 1}
               /\ Len(Calls(trace)) - Len(Calls(SubSeq(trace, 1, snapref.v.at))) <= 1
        /\ restored.some =>
               LET c1 == Params(Calls(trace))
                   c2 == Params(Calls(rtrace))
               IN  /\ Cardinality(Repeated) <= 1
                   /\ \A k \in Repeated :
                          /\ k = 1
                          /\ c2[k] = c1[Len(c1)]
                          /\ steps = snapref.v.steps + 1
                   /\ ~restored.v.isrunning =>
                          Range(c1) \cup Range(c2) = AllCombos(session)

C18_Witness ==
    /\ drv.backup
    /\ drv.pc = "dump"
    /\ restored.some
    /\ ~restored.v.isrunning
    /\ Cardinality(Repeated) = 1
    /\ Len(Calls(trace)) >= 2
    /\ Len(Calls(rtrace)) >= 2

\* what a call of gridSearch with arguments a and the backup file as
\* loadSession does
Resumed(a) ==
    gridSearch(a.cfg.func, PosLists(a.cfg.pos), KwLists(a.cfg.kw), a.cfg.comparer,
               a.backup, snapshot)

\* gridSearch(loadSession = the file) and nothing else
NoArgs ==
    [cfg |-> [pos |-> <<>>, kw |-> <<>>, func |-> "prod", comparer |-> "None"],
     backup |-> FALSE]

\* two calls end with the same session, events and exception, and write
\* their backup file equally often with the same final contents
SameBehaviour(r1, r2) ==
    /\ r1.s = r2.s
    /\ r1.t = r2.t
    /\ r1.exc = r2.exc
    /\ r1.dumps = r2.dumps
    /\ r1.file.some = r2.file.some
    /\ (r1.file.some /\ r2.file.some) => r1.file.v = r2.file.v

=============================================================================
